---- MODULE Spec2Model ----
(***************************************************************************)
(* overridehosts: a per-process hosts override.                            *)
(*   src/liboverridehosts.cpp  the preloaded shim: the override table      *)
(*                             (g_map), its one-time build, and the three  *)
(*                             interceptors getaddrinfo, gethostbyname and *)
(*                             gethostbyname2.                             *)
(*   src/overridehosts.cpp     the launcher (main).                        *)
(*                                                                         *)
(* A C++ string is a sequence of one-character strings.  A pointer that    *)
(* may be null is a sequence of length at most one: << >> is the null      *)
(* pointer, <<x>> points to x.                                             *)
(***************************************************************************)
EXTENDS Integers, Sequences, FiniteSets, TLC

VARIABLES
  env,          \* shim: value of OVERRIDEHOSTS (null pointer or a string)
  libc,         \* shim: the interceptors whose real symbol dlsym(RTLD_NEXT) finds
  once,         \* shim: g_init_once: "uninit", "running", "done"
  g_map,        \* shim: the override table, lower-cased host -> ip text
  g_inited,     \* shim: g_inited
  parse_i,      \* shim: the index i of parse_map_env's loop
  parse_count,  \* shim: how many times parse_map_env was entered
  pc,           \* shim: each thread's position in an interceptor
  cur,          \* shim: the name each thread's running call was given
  tls,          \* shim: the thread_local scratch storage, by storage slot
  held,         \* shim: the host record last handed to each thread
  last,         \* shim: the last completed call, its arguments and its outcome
  req,          \* shim: the call a single-call run is started with
  entries,      \* the host:address entries env was written from (parser runs)
  l_argv,       \* launcher: argv
  l_env,        \* launcher: the environment
  l_env0,       \* launcher: the environment main was started with
  l_pc,         \* launcher: position in main
  l_i,          \* launcher: the loop index i of main
  l_sep,        \* launcher: sep
  l_mappings,   \* launcher: mappings
  l_so,         \* launcher: so_path
  l_steps,      \* launcher: the steps main has completed, in order
  l_exit,       \* launcher: the exit code, once the launcher has terminated
  l_exec        \* launcher: the command execvp replaced the process with

shimVars == <<env, libc, once, g_map, g_inited, parse_i, parse_count, pc, cur,
              tls, held, last, req, entries>>
launcherVars == <<l_argv, l_env, l_env0, l_pc, l_i, l_sep, l_mappings, l_so,
                  l_steps, l_exit, l_exec>>
vars == <<env, libc, once, g_map, g_inited, parse_i, parse_count, pc, cur,
          tls, held, last, req, entries, l_argv, l_env, l_env0, l_pc, l_i, l_sep,
          l_mappings, l_so, l_steps, l_exit, l_exec>>

----------------------------------------------------------------------------
(* Pointers and strings *)

NULL == << >>

Ptr(x) == <<x>>

\* std::string::npos, the "not found" result of find
npos == -1

Min(a, b) == IF a < b THEN a ELSE b

\* std::isspace in the C locale
isspace(c) == c \in {" ", "\t", "\n", "\r", "\f"}

UpperCase == <<"A", "B", "D", "V", "X">>

LowerCase == <<"a", "b", "d", "v", "x">>

tolower_identity(c) == c

\* std::tolower in the C locale, on the letters the model uses
tolower(c) ==
  IF \E k \in 1..Len(UpperCase) : UpperCase[k] = c
  THEN LowerCase[CHOOSE k \in 1..Len(UpperCase) : UpperCase[k] = c]
  ELSE c

to_lower(s) == [k \in 1..Len(s) |-> tolower(s[k])]

\* std::string::substr(pos, n): n is clamped to the end of the string
substr(s, pos, n) == SubSeq(s, pos + 1, Min(pos + n, Len(s)))

RECURSIVE find(_, _, _)
\* std::string::find(ch, from): the first 0-based index >= from, or npos
find(s, ch, from) ==
  IF from >= Len(s) THEN npos
  ELSE IF s[from + 1] = ch THEN from
  ELSE find(s, ch, from + 1)

trim(s) ==
  LET a == CHOOSE x \in 0..Len(s) :
             /\ (x = Len(s) \/ ~isspace(s[x + 1]))
             /\ \A y \in 0..(x - 1) : isspace(s[y + 1])
      b == CHOOSE x \in a..Len(s) :
             /\ (x = a \/ ~isspace(s[x]))
             /\ \A y \in (x + 1)..Len(s) : isspace(s[y])
  IN  substr(s, a, b - a)

----------------------------------------------------------------------------
(* The override table *)

EmptyMap == << >>

map_emplace(m, k, v) ==
  IF k \in DOMAIN m THEN m
  ELSE [x \in (DOMAIN m) \cup {k} |-> IF x = k THEN v ELSE m[x]]

\* g_map[host] = ip: insert, or overwrite the entry the key already has
map_assign(m, k, v) ==
  [x \in (DOMAIN m) \cup {k} |-> IF x = k THEN v ELSE m[x]]

\* One iteration of parse_map_env's loop over all, from index i with table m:
\* the index after the item and the table after it.
parse_item(all, i, m) ==
  LET j0   == find(all, ",", i)
      j    == IF j0 = npos THEN Len(all) ELSE j0
      item == trim(substr(all, i, j - i))
      c    == find(item, ":", 0)
      host == to_lower(trim(substr(item, 0, c)))
      ip0  == trim(substr(item, c + 1, Len(item)))
      ip   == IF ip0 # << >> /\ ip0[1] = "[" /\ ip0[Len(ip0)] = "]" /\ Len(ip0) >= 3
              THEN substr(ip0, 1, Len(ip0) - 2)
              ELSE ip0
  IN  [i   |-> j + 1,
       map |-> IF item = << >> THEN m
               ELSE IF c = npos \/ c = 0 \/ c + 1 >= Len(item) THEN m
               ELSE IF host # << >> /\ ip # << >> THEN map_assign(m, host, ip)
               ELSE m]

RECURSIVE parse_loop(_, _, _)
\* parse_map_env's loop run to its end
parse_loop(all, i, m) ==
  IF i < Len(all)
  THEN LET r == parse_item(all, i, m) IN parse_loop(all, r.i, r.map)
  ELSE m

\* The table a complete run of parse_map_env leaves for the value e of
\* OVERRIDEHOSTS
parse_map_env(e) ==
  IF e = NULL \/ e[1] = << >> THEN EmptyMap ELSE parse_loop(e[1], 0, EmptyMap)

lookup_ip_for_subscript(node, m) ==
  IF node = NULL \/ node[1] = << >>
  THEN [found |-> FALSE, ip |-> << >>, map |-> m]
  ELSE LET key == to_lower(node[1])
       IN  [found |-> TRUE,
            ip    |-> IF key \in DOMAIN m THEN m[key] ELSE << >>,
            map   |-> map_emplace(m, key, << >>)]

\* lookup_ip_for after ensure_inited has returned, against table m: whether
\* the name was found, out_ip, and the table the call leaves
lookup_ip_for(node, m) ==
  IF node = NULL \/ node[1] = << >>
  THEN [found |-> FALSE, ip |-> << >>, map |-> m]
  ELSE LET key == to_lower(node[1])
       IN  IF key \in DOMAIN m
           THEN [found |-> TRUE, ip |-> m[key], map |-> m]
           ELSE [found |-> FALSE, ip |-> << >>, map |-> m]

----------------------------------------------------------------------------
(* Address literals: inet_pton as the C library defines it *)

AF_UNSPEC == 0

AF_INET == 2

AF_INET6 == 10

EAI_NONAME == -2

EAI_FAIL == -4

EAI_MEMORY == -10

SizeofInAddr == 4

SizeofSockaddrIn == 16

SizeofSockaddrIn6 == 28

DecDigits == <<"0", "1", "2", "3", "4", "5", "6", "7", "8", "9">>

HexLower == <<"0", "1", "2", "3", "4", "5", "6", "7", "8", "9",
              "a", "b", "c", "d", "e", "f">>

HexUpper == <<"0", "1", "2", "3", "4", "5", "6", "7", "8", "9",
              "A", "B", "C", "D", "E", "F">>

IsDec(c) == \E k \in 1..Len(DecDigits) : DecDigits[k] = c

IsHex(c) == \E k \in 1..16 : HexLower[k] = c \/ HexUpper[k] = c

DigitVal(c) == (CHOOSE k \in 1..16 : HexLower[k] = c \/ HexUpper[k] = c) - 1

RECURSIVE NumVal(_, _)
\* the value of the digit string s in the given base
NumVal(s, base) ==
  IF s = << >> THEN 0
  ELSE NumVal(SubSeq(s, 1, Len(s) - 1), base) * base + DigitVal(s[Len(s)])

RECURSIVE Split(_, _)
\* the parts of s between the occurrences of sep (one part when there is none)
Split(s, sep) ==
  LET k == find(s, sep, 0)
  IN  IF k = npos THEN <<s>>
      ELSE <<SubSeq(s, 1, k)>> \o Split(SubSeq(s, k + 2, Len(s)), sep)

\* inet_pton(AF_INET, ..): four decimal parts of 1 to 3 digits, each at most
\* 255 and without a leading zero, separated by dots
inet_pton4(s) ==
  LET parts == Split(s, ".")
      good(p) == /\ Len(p) \in 1..3
                 /\ \A k \in 1..Len(p) : IsDec(p[k])
                 /\ (Len(p) > 1 => p[1] # "0")
                 /\ NumVal(p, 10) <= 255
      ok == Len(parts) = 4 /\ \A k \in 1..4 : good(parts[k])
  IN  [ok   |-> ok,
       addr |-> IF ok THEN [k \in 1..4 |-> NumVal(parts[k], 10)] ELSE << >>]

\* inet_pton(AF_INET6, ..): groups of 1 to 4 hex digits separated by colons,
\* eight of them, or fewer around one "::" (the dotted IPv4 tail is left out:
\* no address of the model has one)
inet_pton6(s) ==
  LET gaps  == {k \in 1..(Len(s) - 1) : s[k] = ":" /\ s[k + 1] = ":"}
      good(p) == Len(p) \in 1..4 /\ \A k \in 1..Len(p) : IsHex(p[k])
      groupsOf(x) == IF x = << >> THEN << >> ELSE Split(x, ":")
      gap   == CHOOSE k \in gaps : TRUE
      left  == groupsOf(SubSeq(s, 1, gap - 1))
      right == groupsOf(SubSeq(s, gap + 2, Len(s)))
      plain == Split(s, ":")
      ok == IF gaps = {}
            THEN Len(plain) = 8 /\ \A k \in 1..8 : good(plain[k])
            ELSE /\ Cardinality(gaps) = 1
                 /\ \A k \in 1..Len(left) : good(left[k])
                 /\ \A k \in 1..Len(right) : good(right[k])
                 /\ Len(left) + Len(right) <= 7
      groups == IF gaps = {} THEN plain
                ELSE left \o [k \in 1..(8 - Len(left) - Len(right)) |-> <<"0">>]
                          \o right
  IN  [ok   |-> ok,
       addr |-> IF ok THEN [k \in 1..8 |-> NumVal(groups[k], 16)] ELSE << >>]

----------------------------------------------------------------------------
(* The resolver result synthesizer *)

\* The callocs of make_addrinfo_list: 0 when both succeed, 1 when the first
\* (the addrinfo) fails, 2 when the second (the sockaddr) fails.
CallocOutcomes == {0, 1, 2}

make_addrinfo_list_anyfamily(ip, hints, res_ok, calloc_fail) ==
  LET socktype == IF hints # NULL THEN hints[1].ai_socktype ELSE 0
      protocol == IF hints # NULL THEN hints[1].ai_protocol ELSE 0
      p4  == inet_pton4(ip)
      p6  == inet_pton6(ip)
      out_family == IF p4.ok THEN AF_INET ELSE AF_INET6
      ai  == [ai_flags     |-> 0,
              ai_family    |-> out_family,
              ai_socktype  |-> socktype,
              ai_protocol  |-> protocol,
              ai_addrlen   |-> IF p4.ok THEN SizeofSockaddrIn ELSE SizeofSockaddrIn6,
              ai_addr      |-> Ptr([family |-> out_family, port |-> 0,
                                    addr |-> IF p4.ok THEN p4.addr ELSE p6.addr]),
              ai_canonname |-> NULL,
              ai_next      |-> NULL]
  IN  IF ~res_ok THEN [rc |-> EAI_FAIL, wrote |-> FALSE, res |-> NULL]
      ELSE IF ~p4.ok /\ ~p6.ok THEN [rc |-> EAI_NONAME, wrote |-> TRUE, res |-> NULL]
      ELSE IF calloc_fail # 0
        THEN [rc |-> EAI_MEMORY, wrote |-> TRUE, res |-> NULL]
      ELSE [rc |-> 0, wrote |-> TRUE, res |-> Ptr(ai)]

\* make_addrinfo_list(ip, hints, res): the return code, whether *res was
\* written, and the value written
make_addrinfo_list(ip, hints, res_ok, calloc_fail) ==
  LET family   == IF hints # NULL THEN hints[1].ai_family ELSE AF_UNSPEC
      socktype == IF hints # NULL THEN hints[1].ai_socktype ELSE 0
      protocol == IF hints # NULL THEN hints[1].ai_protocol ELSE 0
      p4  == inet_pton4(ip)
      p6  == inet_pton6(ip)
      is4 == p4.ok
      is6 == p6.ok
      out_family == IF is4 THEN AF_INET ELSE AF_INET6
      sa  == IF out_family = AF_INET
             THEN [family |-> AF_INET, port |-> 0, addr |-> p4.addr]
             ELSE [family |-> AF_INET6, port |-> 0, addr |-> p6.addr]
      ai  == [ai_flags     |-> 0,
              ai_family    |-> out_family,
              ai_socktype  |-> socktype,
              ai_protocol  |-> protocol,
              ai_addrlen   |-> IF out_family = AF_INET THEN SizeofSockaddrIn
                               ELSE SizeofSockaddrIn6,
              ai_addr      |-> Ptr(sa),
              ai_canonname |-> NULL,
              ai_next      |-> NULL]
  IN  IF ~res_ok THEN [rc |-> EAI_FAIL, wrote |-> FALSE, res |-> NULL]
      ELSE IF ~is4 /\ ~is6 THEN [rc |-> EAI_NONAME, wrote |-> TRUE, res |-> NULL]
      ELSE IF family = AF_INET /\ ~is4
        THEN [rc |-> EAI_NONAME, wrote |-> TRUE, res |-> NULL]
      ELSE IF family = AF_INET6 /\ ~is6
        THEN [rc |-> EAI_NONAME, wrote |-> TRUE, res |-> NULL]
      ELSE IF calloc_fail # 0
        THEN [rc |-> EAI_MEMORY, wrote |-> TRUE, res |-> NULL]
      ELSE [rc |-> 0, wrote |-> TRUE, res |-> Ptr(ai)]

----------------------------------------------------------------------------
(* The legacy host record and the thread_local scratch storage *)

\* g_he{}, g_addr_storage, g_addr_list, g_name, g_ip_str as constructed
TlsInit ==
  [g_he |-> [h_name |-> NULL, h_aliases |-> NULL, h_addrtype |-> 0,
             h_length |-> 0, h_addr_list |-> NULL],
   g_addr_storage |-> << >>,
   g_addr_list    |-> << >>,
   g_name         |-> << >>,
   g_ip_str       |-> << >>]

make_hostent_v4_eager(st, name, ip) ==
  LET p4 == inet_pton4(ip)
      st1 == [st EXCEPT !.g_name = name, !.g_ip_str = ip]
  IN  IF ~p4.ok THEN [ret |-> NULL, st |-> st1]
      ELSE [ret |-> Ptr("g_he"),
            st  |-> [g_name         |-> name,
                     g_ip_str       |-> ip,
                     g_addr_storage |-> p4.addr,
                     g_addr_list    |-> <<Ptr("g_addr_storage"), NULL>>,
                     g_he |-> [h_name      |-> Ptr("g_name"),
                               h_aliases   |-> NULL,
                               h_addrtype  |-> AF_INET,
                               h_length    |-> SizeofInAddr,
                               h_addr_list |-> Ptr("g_addr_list")]]]

\* make_hostent_v4(name, ip) on the calling thread's scratch storage st: the
\* pointer returned (to the thread's g_he, or null) and the storage after
make_hostent_v4(st, name, ip) ==
  LET p4 == inet_pton4(ip)
  IN  IF ~p4.ok THEN [ret |-> NULL, st |-> st]
      ELSE [ret |-> Ptr("g_he"),
            st  |-> [g_name         |-> name,
                     g_ip_str       |-> ip,
                     g_addr_storage |-> p4.addr,
                     g_addr_list    |-> <<Ptr("g_addr_storage"), NULL>>,
                     g_he |-> [h_name      |-> Ptr("g_name"),
                               h_aliases   |-> NULL,
                               h_addrtype  |-> AF_INET,
                               h_length    |-> SizeofInAddr,
                               h_addr_list |-> Ptr("g_addr_list")]]]

\* What a caller reads through a pointer to the g_he of storage st: the
\* record's fields with its pointers followed (h_name to g_name, h_addr_list
\* to g_addr_list, whose entries point to g_addr_storage, up to the first null)
hostent_read(st) ==
  LET list == IF st.g_he.h_addr_list = NULL THEN << >> ELSE st.g_addr_list
      n    == IF \E k \in 1..Len(list) : list[k] = NULL
              THEN (CHOOSE k \in 1..Len(list) :
                      list[k] = NULL /\ \A k2 \in 1..(k - 1) : list[k2] # NULL) - 1
              ELSE Len(list)
  IN  [h_name     |-> IF st.g_he.h_name = NULL THEN NULL ELSE Ptr(st.g_name),
       h_aliases  |-> st.g_he.h_aliases,
       h_addrtype |-> st.g_he.h_addrtype,
       h_length   |-> st.g_he.h_length,
       addrs      |-> [k \in 1..n |-> st.g_addr_storage]]

static_slot(t) == 1

\* thread_local: each thread has its own g_he, g_addr_storage, g_addr_list,
\* g_name and g_ip_str; the storage slot of thread t
tls_slot(t) == t

----------------------------------------------------------------------------
(* The three interceptors.  Each is given the table m after ensure_inited,    *)
(* the calling thread's scratch storage st, whether dlsym found the real      *)
(* function (real_found) and what the real function would answer (real_out).  *)
(* Each yields its return value, the real call it made (null when none), the  *)
(* table and the storage it leaves, and the lookup's outcome.                 *)

getaddrinfo_fallthrough(node, service, hints, res_ok, m, st, real_found, real_out, calloc_fail) ==
  LET lk == lookup_ip_for(node, m)
      mk == make_addrinfo_list(lk.ip, hints, res_ok, calloc_fail)
  IN  IF lk.found /\ mk.rc = 0
      THEN [rc |-> mk.rc, wrote |-> mk.wrote, res |-> mk.res, real_call |-> NULL,
            map |-> lk.map, st |-> st, hit |-> TRUE, ip |-> lk.ip]
      ELSE IF real_found
      THEN [rc |-> real_out, wrote |-> FALSE, res |-> NULL,
            real_call |-> Ptr([fn |-> "getaddrinfo",
                               args |-> <<node, service, hints, res_ok>>]),
            map |-> lk.map, st |-> st, hit |-> lk.found, ip |-> lk.ip]
      ELSE [rc |-> EAI_FAIL, wrote |-> FALSE, res |-> NULL, real_call |-> NULL,
            map |-> lk.map, st |-> st, hit |-> lk.found, ip |-> lk.ip]

getaddrinfo(node, service, hints, res_ok, m, st, real_found, real_out, calloc_fail) ==
  LET lk == lookup_ip_for(node, m)
      mk == make_addrinfo_list(lk.ip, hints, res_ok, calloc_fail)
  IN  IF lk.found
      THEN [rc |-> mk.rc, wrote |-> mk.wrote, res |-> mk.res, real_call |-> NULL,
            map |-> lk.map, st |-> st, hit |-> TRUE, ip |-> lk.ip]
      ELSE IF real_found
      THEN [rc |-> real_out, wrote |-> FALSE, res |-> NULL,
            real_call |-> Ptr([fn |-> "getaddrinfo",
                               args |-> <<node, service, hints, res_ok>>]),
            map |-> lk.map, st |-> st, hit |-> FALSE, ip |-> lk.ip]
      ELSE [rc |-> EAI_FAIL, wrote |-> FALSE, res |-> NULL, real_call |-> NULL,
            map |-> lk.map, st |-> st, hit |-> FALSE, ip |-> lk.ip]

gethostbyname_fallthrough(name, m, st, real_found, real_out) ==
  LET lk == lookup_ip_for(name, m)
      mk == make_hostent_v4(st, name[1], lk.ip)
  IN  IF lk.found /\ mk.ret # NULL
      THEN [ret |-> mk.ret, real_call |-> NULL,
            map |-> lk.map, st |-> mk.st, hit |-> TRUE, ip |-> lk.ip]
      ELSE IF real_found
      THEN [ret |-> real_out,
            real_call |-> Ptr([fn |-> "gethostbyname", args |-> <<name>>]),
            map |-> lk.map, st |-> st, hit |-> lk.found, ip |-> lk.ip]
      ELSE [ret |-> NULL, real_call |-> NULL,
            map |-> lk.map, st |-> st, hit |-> lk.found, ip |-> lk.ip]

gethostbyname(name, m, st, real_found, real_out) ==
  LET lk == lookup_ip_for(name, m)
      mk == make_hostent_v4(st, name[1], lk.ip)
  IN  IF lk.found
      THEN [ret |-> mk.ret, real_call |-> NULL,
            map |-> lk.map, st |-> mk.st, hit |-> TRUE, ip |-> lk.ip]
      ELSE IF real_found
      THEN [ret |-> real_out,
            real_call |-> Ptr([fn |-> "gethostbyname", args |-> <<name>>]),
            map |-> lk.map, st |-> st, hit |-> FALSE, ip |-> lk.ip]
      ELSE [ret |-> NULL, real_call |-> NULL,
            map |-> lk.map, st |-> st, hit |-> FALSE, ip |-> lk.ip]

gethostbyname2_forward_v6(name, af, m, st, real_found, real_out) ==
  LET lk == lookup_ip_for(name, m)
      mk == make_hostent_v4(st, name[1], lk.ip)
  IN  IF lk.found /\ af = AF_INET
      THEN [ret |-> mk.ret, real_call |-> NULL,
            map |-> lk.map, st |-> mk.st, hit |-> TRUE, ip |-> lk.ip]
      ELSE IF real_found
      THEN [ret |-> real_out,
            real_call |-> Ptr([fn |-> "gethostbyname2", args |-> <<name, af>>]),
            map |-> lk.map, st |-> st, hit |-> lk.found, ip |-> lk.ip]
      ELSE [ret |-> NULL, real_call |-> NULL,
            map |-> lk.map, st |-> st, hit |-> lk.found, ip |-> lk.ip]

gethostbyname2(name, af, m, st, real_found, real_out) ==
  LET lk == lookup_ip_for(name, m)
      mk == make_hostent_v4(st, name[1], lk.ip)
  IN  IF lk.found
      THEN IF af = AF_INET
           THEN [ret |-> mk.ret, real_call |-> NULL,
                 map |-> lk.map, st |-> mk.st, hit |-> TRUE, ip |-> lk.ip]
           ELSE [ret |-> NULL, real_call |-> NULL,
                 map |-> lk.map, st |-> st, hit |-> TRUE, ip |-> lk.ip]
      ELSE IF real_found
      THEN [ret |-> real_out,
            real_call |-> Ptr([fn |-> "gethostbyname2", args |-> <<name, af>>]),
            map |-> lk.map, st |-> st, hit |-> FALSE, ip |-> lk.ip]
      ELSE [ret |-> NULL, real_call |-> NULL,
            map |-> lk.map, st |-> st, hit |-> FALSE, ip |-> lk.ip]

----------------------------------------------------------------------------
(* Inputs *)

\* the number of threads of the host process that call the interceptors
NThreads == 2

Threads == 1..NThreads

Apis == {"getaddrinfo", "gethostbyname", "gethostbyname2"}

LegacyApis == {"gethostbyname", "gethostbyname2"}

S_db == <<"d", "b">>

S_Db == <<"D", "b">>

S_v == <<"v">>

S_x == <<"x">>

S_1234 == <<"1", ".", "2", ".", "3", ".", "4">>

S_5678 == <<"5", ".", "6", ".", "7", ".", "8">>

S_v6 == <<":", ":", "1">>

S_v6long == <<"2", "0", "0", "1", ":", "d", "b", "8", ":", ":", "1">>

\* the names callers ask for: null, empty, and four host names
Names == {NULL, Ptr(<< >>), Ptr(S_db), Ptr(S_Db), Ptr(S_v), Ptr(S_x)}

\* values of OVERRIDEHOSTS the shim is started with:
\*   unset;  ""
\*   "db:1.2.3.4,bad, V:[2001:db8::1]"
\*   "v:zz,DB:1.2.3.4,db:5.6.7.8"
ShimEnvs ==
  {NULL,
   Ptr(<< >>),
   Ptr(S_db \o <<":">> \o S_1234 \o <<",", "b", "a", "d", ",", " ", "V", ":", "[">>
       \o S_v6long \o <<"]">>),
   Ptr(<<"v", ":", "z", "z", ",", "D", "B", ":">> \o S_1234 \o <<",">> \o S_db
       \o <<":">> \o S_5678)}

\* the names and the values of OVERRIDEHOSTS of the multi-threaded runs
ThreadNames == {NULL, Ptr(S_db), Ptr(S_Db), Ptr(S_x)}

ThreadEnvs ==
  {NULL,
   Ptr(S_db \o <<":">> \o S_1234 \o <<",", "b", "a", "d", ",", " ", "V", ":", "[">>
       \o S_v6long \o <<"]">>)}

Services == {NULL, Ptr(<<"8", "0">>)}

\* hints: none, or a family with socket type and protocol 0/0 or 1/6
HintsSet ==
  {NULL} \cup
  {Ptr([ai_family |-> f, ai_socktype |-> sp[1], ai_protocol |-> sp[2]]) :
     f \in {AF_UNSPEC, AF_INET, AF_INET6}, sp \in {<<0, 0>>, <<1, 6>>}}

Families == {AF_UNSPEC, AF_INET, AF_INET6}

\* what the real getaddrinfo returns
RealRcs == {0, EAI_NONAME}

\* what the real gethostbyname and gethostbyname2 return
RealHostents == {NULL, Ptr("libc_hostent")}

\* every combination of getaddrinfo's arguments besides the name, with what
\* calloc and the real getaddrinfo answer
GaiArgs ==
  [service : Services, hints : HintsSet, res_ok : BOOLEAN,
   real_out : RealRcs, calloc_fail : CallocOutcomes]

\* the combinations the multi-threaded runs draw from: a synthesis that
\* succeeds, one that the family hint fails, one that calloc fails, and a null
\* result pointer
GaiArgsFew ==
  {a \in GaiArgs :
     /\ a.service = NULL
     /\ a.real_out = 0
     /\ \/ a.hints = NULL /\ a.res_ok /\ a.calloc_fail \in {0, 2}
        \/ /\ a.hints = Ptr([ai_family |-> AF_INET6, ai_socktype |-> 1,
                             ai_protocol |-> 6])
           /\ a.calloc_fail = 0}

NoCall ==
  [api |-> "none", t |-> 0, args |-> << >>, rc |-> 0, ret |-> NULL,
   wrote |-> FALSE, res |-> NULL, real_call |-> NULL, hit |-> FALSE,
   ip |-> << >>, calloc_fail |-> 0, real_out |-> NULL, before |-> TlsInit]

LauncherOff ==
  /\ l_argv = << >>
  /\ l_env = << >>
  /\ l_env0 = << >>
  /\ l_pc = "off"
  /\ l_i = 0
  /\ l_sep = -1
  /\ l_mappings = << >>
  /\ l_so = << >>
  /\ l_steps = << >>
  /\ l_exit = -1
  /\ l_exec = NULL

ShimStart ==
  /\ once = "uninit"
  /\ g_map = EmptyMap
  /\ g_inited = FALSE
  /\ parse_i = 0
  /\ parse_count = 0
  /\ pc = [t \in Threads |-> "idle"]
  /\ cur = [t \in Threads |-> NULL]
  /\ tls = [t \in Threads |-> TlsInit]
  /\ held = [t \in Threads |-> NULL]
  /\ last = NoCall

----------------------------------------------------------------------------
(* The shim in a multi-threaded process *)

call_once_returns_early(flag) == flag # "uninit"

\* std::call_once, passive: returns without running the callable once the
\* flag is set by a completed run; while another thread's run is in progress
\* the caller blocks
call_once_returns(flag) == flag = "done"

\* std::call_once, active: the one caller that finds the flag unset runs the
\* callable
call_once_runs(flag) == flag = "uninit"

\* T's record after a legacy call that returned ret: the shim's record (the
\* g_he of T's storage slot) with the name and address it was built from, or
\* nothing when the call returned null or libc's record
HeldAfter(t, name, r) ==
  IF r.ret = Ptr("g_he")
  THEN Ptr([slot |-> tls_slot(t), name |-> name[1], addr |-> inet_pton4(r.ip).addr])
  ELSE NULL

\* A thread enters an interceptor with a name; lookup_ip_for returns at once
\* for a null or empty name, and calls ensure_inited otherwise.
Enter(t) ==
  /\ pc[t] = "idle"
  /\ \E name \in ThreadNames :
       /\ cur' = [cur EXCEPT ![t] = name]
       /\ pc' = [pc EXCEPT ![t] = IF name = NULL \/ name[1] = << >>
                                  THEN "find" ELSE "ensure"]
  /\ UNCHANGED <<env, libc, once, g_map, g_inited, parse_i, parse_count, tls,
                 held, last, req, entries>>
  /\ UNCHANGED launcherVars

\* ensure_inited, the caller that runs parse_map_env: an unset or empty
\* OVERRIDEHOSTS completes at once, otherwise the loop starts at i = 0.
OnceRun(t) ==
  /\ pc[t] = "ensure"
  /\ call_once_runs(once)
  /\ parse_count' = parse_count + 1
  /\ IF env = NULL \/ env[1] = << >>
     THEN /\ g_inited' = TRUE
          /\ once' = "done"
          /\ pc' = [pc EXCEPT ![t] = "find"]
          /\ UNCHANGED parse_i
     ELSE /\ once' = "running"
          /\ parse_i' = 0
          /\ pc' = [pc EXCEPT ![t] = "parse"]
          /\ UNCHANGED g_inited
  /\ UNCHANGED <<env, libc, g_map, cur, tls, held, last, req, entries>>
  /\ UNCHANGED launcherVars

\* one iteration of parse_map_env's loop
ParseItem(t) ==
  /\ pc[t] = "parse"
  /\ parse_i < Len(env[1])
  /\ LET r == parse_item(env[1], parse_i, g_map)
     IN  /\ parse_i' = r.i
         /\ g_map' = r.map
  /\ UNCHANGED <<env, libc, once, g_inited, parse_count, pc, cur, tls, held,
                 last, req, entries>>
  /\ UNCHANGED launcherVars

\* the loop ends: g_inited.store(true), and call_once completes
ParseEnd(t) ==
  /\ pc[t] = "parse"
  /\ parse_i >= Len(env[1])
  /\ g_inited' = TRUE
  /\ once' = "done"
  /\ pc' = [pc EXCEPT ![t] = "find"]
  /\ UNCHANGED <<env, libc, g_map, parse_i, parse_count, cur, tls, held, last,
                 req, entries>>
  /\ UNCHANGED launcherVars

\* ensure_inited, a caller that finds the table built
OnceReturn(t) ==
  /\ pc[t] = "ensure"
  /\ call_once_returns(once)
  /\ pc' = [pc EXCEPT ![t] = "find"]
  /\ UNCHANGED <<env, libc, once, g_map, g_inited, parse_i, parse_count, cur,
                 tls, held, last, req, entries>>
  /\ UNCHANGED launcherVars

\* What every interceptor leaves when thread t's call returns r.
Return(t, r) ==
  /\ g_map' = r.map
  /\ tls' = [tls EXCEPT ![tls_slot(t)] = r.st]
  /\ pc' = [pc EXCEPT ![t] = "idle"]
  /\ cur' = [cur EXCEPT ![t] = NULL]
  /\ UNCHANGED <<env, libc, once, g_inited, parse_i, parse_count, last, req, entries>>
  /\ UNCHANGED launcherVars

\* getaddrinfo from the table lookup on; the arguments besides the name are
\* private to the call and drawn where they are first read
Getaddrinfo(t) ==
  /\ pc[t] = "find"
  /\ \E a \in GaiArgsFew :
       Return(t, getaddrinfo(cur[t], a.service, a.hints, a.res_ok, g_map,
                             tls[tls_slot(t)], "getaddrinfo" \in libc,
                             a.real_out, a.calloc_fail))
  /\ UNCHANGED held

\* gethostbyname from the table lookup on
Gethostbyname(t) ==
  /\ pc[t] = "find"
  /\ \E real_out \in RealHostents :
       LET r == gethostbyname(cur[t], g_map, tls[tls_slot(t)],
                              "gethostbyname" \in libc, real_out)
       IN  /\ Return(t, r)
           /\ held' = [held EXCEPT ![t] = HeldAfter(t, cur[t], r)]

\* gethostbyname2 from the table lookup on
Gethostbyname2(t) ==
  /\ pc[t] = "find"
  /\ \E af \in Families, real_out \in RealHostents :
       LET r == gethostbyname2(cur[t], af, g_map, tls[tls_slot(t)],
                               "gethostbyname2" \in libc, real_out)
       IN  /\ Return(t, r)
           /\ held' = [held EXCEPT ![t] = HeldAfter(t, cur[t], r)]

Init ==
  /\ env \in ThreadEnvs
  /\ libc = Apis
  /\ req = NULL
  /\ entries = << >>
  /\ ShimStart
  /\ LauncherOff

Next ==
  \E t \in Threads :
    \/ Enter(t)
    \/ OnceRun(t)
    \/ ParseItem(t)
    \/ ParseEnd(t)
    \/ OnceReturn(t)
    \/ Getaddrinfo(t)
    \/ Gethostbyname(t)
    \/ Gethostbyname2(t)

Spec == Init /\ [][Next]_vars

----------------------------------------------------------------------------
(* The shim called by one thread, each call run from entry to return *)

\* lookup_ip_for up to the return of ensure_inited, for a call that is alone:
\* a null or empty name returns before it; the first other call runs
\* parse_map_env to its end; later calls find the flag set.
RunsParse(name) == name # NULL /\ name[1] # << >> /\ call_once_runs(once)

TableAfterEnsure(name) == IF RunsParse(name) THEN parse_map_env(env) ELSE g_map

EnsureAlone(name) ==
  IF RunsParse(name)
  THEN /\ once' = "done"
       /\ g_inited' = TRUE
       /\ parse_count' = parse_count + 1
  ELSE UNCHANGED <<once, g_inited, parse_count>>

\* the record of a completed call
Completed(api, t, args, r, calloc_fail, real_out) ==
  [api |-> api, t |-> t, args |-> args,
   rc |-> IF api = "getaddrinfo" THEN r.rc ELSE 0,
   ret |-> IF api = "getaddrinfo" THEN NULL ELSE r.ret,
   wrote |-> IF api = "getaddrinfo" THEN r.wrote ELSE FALSE,
   res |-> IF api = "getaddrinfo" THEN r.res ELSE NULL,
   real_call |-> r.real_call, hit |-> r.hit, ip |-> r.ip,
   calloc_fail |-> calloc_fail, real_out |-> real_out,
   before |-> tls[tls_slot(t)]]

ReturnAlone(t, r) ==
  /\ g_map' = r.map
  /\ tls' = [tls EXCEPT ![tls_slot(t)] = r.st]
  /\ UNCHANGED <<env, libc, parse_i, pc, cur, req, entries>>
  /\ UNCHANGED launcherVars

\* one call of gethostbyname by thread 1
CallGethostbyname ==
  \E name \in Names, real_out \in RealHostents :
    LET r == gethostbyname(name, TableAfterEnsure(name), tls[tls_slot(1)],
                           "gethostbyname" \in libc, real_out)
    IN  /\ EnsureAlone(name)
        /\ ReturnAlone(1, r)
        /\ held' = [held EXCEPT ![1] = HeldAfter(1, name, r)]
        /\ last' = Completed("gethostbyname", 1, <<name>>, r, 0, real_out)

\* one call of gethostbyname2 by thread 1
CallGethostbyname2 ==
  \E name \in Names, af \in Families, real_out \in RealHostents :
    LET r == gethostbyname2(name, af, TableAfterEnsure(name), tls[tls_slot(1)],
                            "gethostbyname2" \in libc, real_out)
    IN  /\ EnsureAlone(name)
        /\ ReturnAlone(1, r)
        /\ held' = [held EXCEPT ![1] = HeldAfter(1, name, r)]
        /\ last' = Completed("gethostbyname2", 1, <<name, af>>, r, 0, real_out)

InitLegacy ==
  /\ env \in ShimEnvs
  /\ libc \in SUBSET LegacyApis
  /\ req = NULL
  /\ entries = << >>
  /\ ShimStart
  /\ LauncherOff

NextLegacy == CallGethostbyname \/ CallGethostbyname2

SpecLegacy == InitLegacy /\ [][NextLegacy]_vars

\* the call of getaddrinfo the run was started with
CallGetaddrinfo ==
  /\ req # NULL
  /\ last = NoCall
  /\ LET name == req[1].name
         a    == req[1].a
         r    == getaddrinfo(name, a.service, a.hints, a.res_ok,
                             TableAfterEnsure(name), tls[tls_slot(1)],
                             "getaddrinfo" \in libc, a.real_out, a.calloc_fail)
     IN  /\ EnsureAlone(name)
         /\ ReturnAlone(1, r)
         /\ last' = Completed("getaddrinfo", 1,
                              <<name, a.service, a.hints, a.res_ok>>, r,
                              a.calloc_fail, a.real_out)
  /\ UNCHANGED held

InitGai ==
  /\ env \in ShimEnvs
  /\ libc \in {{}, {"getaddrinfo"}}
  /\ req \in {Ptr(q) : q \in [name : Names, a : GaiArgs]}
  /\ entries = << >>
  /\ ShimStart
  /\ LauncherOff

NextGai == CallGetaddrinfo

SpecGai == InitGai /\ [][NextGai]_vars

----------------------------------------------------------------------------
(* Properties of the shim *)

\* the table a complete parse of each value of OVERRIDEHOSTS builds
BuiltTables == [e \in ShimEnvs \cup ThreadEnvs |-> parse_map_env(e)]

HasName(name) == name # NULL /\ name[1] # << >>

\* whether the built table has an entry for the name, compared in lower case
InTable(name) == HasName(name) /\ to_lower(name[1]) \in DOMAIN BuiltTables[env]

RECURSIVE ListLength(_)
\* the number of elements of a result list, following ai_next
ListLength(p) == IF p = NULL THEN 0 ELSE 1 + ListLength(p[1].ai_next)

\* C1: under every interleaving of the threads' first calls with a non-empty
\* name, parse_map_env is entered at most once, exactly once as soon as the
\* flag is set, and a thread that is about to look its name up in the table
\* finds the flag set and the table equal to the complete parse of
\* OVERRIDEHOSTS, never an empty or partly filled one.
C1_ParsedOnceAndComplete ==
  /\ parse_count <= 1
  /\ (once # "uninit" <=> parse_count = 1)
  /\ \A t \in Threads :
       (pc[t] = "find" /\ HasName(cur[t]))
         => /\ once = "done"
            /\ g_inited
            /\ g_map = BuiltTables[env]

\* Two threads are both about to look up a non-empty name in a table that a
\* single parse filled with two entries.
C1_Witness ==
  /\ \E t1, t2 \in Threads :
       /\ t1 # t2
       /\ pc[t1] = "find" /\ HasName(cur[t1])
       /\ pc[t2] = "find" /\ HasName(cur[t2])
  /\ Cardinality(DOMAIN g_map) = 2
  /\ parse_count = 1

\* C7: once the table is built no step of any thread (a hit, a miss, a
\* failed synthesis) changes it, and in every state a lookup of a name that
\* the configuration does not list misses.
C7_TableFrozen ==
  /\ [][once = "done" => g_map' = g_map]_vars
  /\ [](once = "done" =>
          \A name \in ThreadNames :
            ~InTable(name) =>
              /\ ~lookup_ip_for(name, g_map).found
              /\ lookup_ip_for(name, g_map).map = BuiltTables[env])

\* A thread is about to look up an absent host after another thread was
\* served a record from the built table.
C7_Witness ==
  /\ once = "done"
  /\ g_map # EmptyMap
  /\ \E t1, t2 \in Threads :
       /\ t1 # t2
       /\ held[t1] # NULL
       /\ pc[t2] = "find" /\ cur[t2] = Ptr(S_x)

\* C8: the record the shim handed to thread T (the g_he of T's storage)
\* reads, until T completes another legacy call, as the name of T's call and
\* the one IPv4 address of its override, whatever the other threads do.
C8_RecordStable ==
  \A t \in Threads :
    held[t] # NULL =>
      LET h   == held[t][1]
          rec == hostent_read(tls[h.slot])
      IN  /\ rec.h_name = Ptr(h.name)
          /\ rec.h_addrtype = AF_INET
          /\ rec.h_length = SizeofInAddr
          /\ rec.addrs = <<h.addr>>
          /\ rec.h_aliases = NULL

\* Two threads hold records of different names at the same time.
C8_Witness ==
  \E t1, t2 \in Threads :
    /\ t1 # t2
    /\ held[t1] # NULL /\ held[t2] # NULL
    /\ held[t1][1].name # held[t2][1].name

\* the last call was answered with null by the shim itself
ShimEmpty == last.api \in LegacyApis /\ last.hit /\ last.ret = NULL

\* the last call was a gethostbyname that hit an override that is no IPv4
\* literal
C2_Case ==
  /\ last.api = "gethostbyname"
  /\ InTable(last.args[1])
  /\ ~inet_pton4(BuiltTables[env][to_lower(last.args[1][1])]).ok

\* C2 as stated: such a call is forwarded to the real gethostbyname (here
\* with the real function present) and returns its result.
C2_AsStated ==
  (C2_Case /\ "gethostbyname" \in libc) =>
    /\ last.real_call = Ptr([fn |-> "gethostbyname", args |-> last.args])
    /\ last.ret = last.real_out

\* C2, amended: such a call returns null itself, calls no real function,
\* and builds no record: the thread's scratch storage is left as it was.
C2_ReturnsEmpty ==
  C2_Case =>
    /\ last.ret = NULL
    /\ last.real_call = NULL
    /\ tls[tls_slot(last.t)] = last.before

C2_Witness ==
  /\ C2_Case
  /\ "gethostbyname" \in libc
  /\ inet_pton6(last.ip).ok
  /\ last.real_out # NULL

C3_Hit6 ==
  (InTable(last.args[1]) /\ last.args[2] = AF_INET6)
    => last.ret = NULL /\ last.real_call = NULL

C3_Hit4 ==
  (/\ InTable(last.args[1])
   /\ last.args[2] = AF_INET
   /\ inet_pton4(BuiltTables[env][to_lower(last.args[1][1])]).ok)
    => /\ last.ret = Ptr("g_he")
       /\ last.real_call = NULL
       /\ hostent_read(tls[tls_slot(last.t)]).h_name = Ptr(last.args[1][1])

C3_Forwarded ==
  /\ last.real_call = Ptr([fn |-> "gethostbyname2", args |-> last.args])
  /\ last.ret = last.real_out

\* C3 as stated: a hit with family IPv6 is answered null without the real
\* function, a hit on an IPv4 literal with family IPv4 with a local record,
\* and a miss is forwarded to the real gethostbyname2.
C3_AsStated ==
  last.api = "gethostbyname2" =>
    /\ C3_Hit6
    /\ C3_Hit4
    /\ (~InTable(last.args[1]) => C3_Forwarded)

\* C3, amended: the same, but a miss is forwarded only when the real
\* gethostbyname2 was found; when it was not, the call returns null.
C3_HitAndMiss ==
  last.api = "gethostbyname2" =>
    /\ C3_Hit6
    /\ C3_Hit4
    /\ (~InTable(last.args[1]) /\ "gethostbyname2" \in libc => C3_Forwarded)
    /\ (~InTable(last.args[1]) /\ "gethostbyname2" \notin libc
          => last.ret = NULL /\ last.real_call = NULL)

C3_Witness ==
  /\ last.api = "gethostbyname2"
  /\ InTable(last.args[1])
  /\ last.args[2] = AF_INET6
  /\ "gethostbyname2" \in libc
  /\ inet_pton4(last.ip).ok

\* C10: a legacy call that the shim answers with null on a hit leaves the
\* calling thread's scratch storage as it was before the call, so the record
\* of the thread's earlier served call reads as before.
C10_EmptyKeepsScratch ==
  ShimEmpty =>
    /\ tls[tls_slot(last.t)] = last.before
    /\ hostent_read(tls[tls_slot(last.t)]) = hostent_read(last.before)

\* After a served call built a record, the thread's next legacy call was
\* answered null on a hit, for another name than the record's.
C10_Witness ==
  /\ ShimEmpty
  /\ last.before # TlsInit
  /\ last.before.g_name # last.args[1][1]
  /\ hostent_read(tls[tls_slot(last.t)]).h_name = Ptr(last.before.g_name)

\* the last call was a getaddrinfo whose name has an override
GaiHit == last.api = "getaddrinfo" /\ InTable(last.args[1])

\* the override address of the last call's name
GaiAddress == BuiltTables[env][to_lower(last.args[1][1])]

\* the family hint of the last call, AF_UNSPEC when it gave no hints
GaiFamily == IF last.args[3] = NULL THEN AF_UNSPEC ELSE last.args[3][1].ai_family

\* the cases in which C4 says the call fails with EAI_NONAME
GaiNoSuchName ==
  LET is4 == inet_pton4(GaiAddress).ok
      is6 == inet_pton6(GaiAddress).ok
  IN  \/ ~is4 /\ ~is6
      \/ GaiFamily = AF_INET /\ ~is4
      \/ GaiFamily = AF_INET6 /\ ~is6

\* the call succeeded with one element whose next link is empty, of the
\* family of the address, with the socket type and protocol of the hints
GaiOneResult ==
  /\ last.rc = 0
  /\ last.wrote
  /\ ListLength(last.res) = 1
  /\ last.res[1].ai_next = NULL
  /\ last.res[1].ai_family =
       (IF inet_pton4(GaiAddress).ok THEN AF_INET ELSE AF_INET6)
  /\ last.res[1].ai_socktype =
       (IF last.args[3] = NULL THEN 0 ELSE last.args[3][1].ai_socktype)
  /\ last.res[1].ai_protocol =
       (IF last.args[3] = NULL THEN 0 ELSE last.args[3][1].ai_protocol)
  /\ last.res[1].ai_addr[1].family = last.res[1].ai_family
  /\ last.res[1].ai_addr[1].addr =
       (IF inet_pton4(GaiAddress).ok THEN inet_pton4(GaiAddress).addr
        ELSE inet_pton6(GaiAddress).addr)

\* C4 as stated: on a hit the call fails with EAI_NONAME exactly in the
\* three cases, and succeeds with the one result otherwise.
C4_AsStated ==
  GaiHit =>
    /\ (last.rc = EAI_NONAME <=> GaiNoSuchName)
    /\ (~GaiNoSuchName => GaiOneResult)

\* C4, amended: with a null result pointer the call returns EAI_FAIL and
\* writes nothing; with a result pointer it fails with EAI_NONAME exactly in
\* the three cases (the result set to null), and otherwise succeeds with the
\* one result unless a calloc fails, which gives EAI_MEMORY and a null result.
C4_Synthesis ==
  GaiHit =>
    /\ (~last.args[4] => last.rc = EAI_FAIL /\ ~last.wrote)
    /\ (last.args[4] =>
          /\ (last.rc = EAI_NONAME <=> GaiNoSuchName)
          /\ (GaiNoSuchName => last.wrote /\ last.res = NULL)
          /\ (~GaiNoSuchName /\ last.calloc_fail = 0 => GaiOneResult)
          /\ (~GaiNoSuchName /\ last.calloc_fail # 0
                => last.rc = EAI_MEMORY /\ last.wrote /\ last.res = NULL))

\* A hit on an IPv6 literal with a hint of unspecified family, socket type 1
\* and protocol 6 succeeded.
C4_Witness ==
  /\ GaiHit
  /\ inet_pton6(GaiAddress).ok
  /\ last.args[3] # NULL
  /\ GaiFamily = AF_UNSPEC
  /\ last.args[3][1].ai_socktype = 1
  /\ last.rc = 0
  /\ last.res[1].ai_family = AF_INET6

\* C5: a getaddrinfo whose name has no override (a null or empty name
\* included) calls the real getaddrinfo, when dlsym found it, with the
\* caller's four arguments and returns what it returns, and returns EAI_FAIL
\* when dlsym did not find it; a call whose name has an override never calls
\* the real getaddrinfo, whatever the synthesis returns.
C5_MissDelegates ==
  last.api = "getaddrinfo" =>
    /\ last.args = <<req[1].name, req[1].a.service, req[1].a.hints, req[1].a.res_ok>>
    /\ (~InTable(last.args[1]) /\ "getaddrinfo" \in libc =>
          /\ last.real_call = Ptr([fn |-> "getaddrinfo", args |-> last.args])
          /\ last.rc = last.real_out)
    /\ (~InTable(last.args[1]) /\ "getaddrinfo" \notin libc =>
          /\ last.real_call = NULL
          /\ last.rc = EAI_FAIL)
    /\ (InTable(last.args[1]) => last.real_call = NULL)

\* A call with an empty name was forwarded with a service and hints, and the
\* real function's error came back.
C5_Witness ==
  /\ last.api = "getaddrinfo"
  /\ last.args[1] = Ptr(<< >>)
  /\ last.args[2] # NULL
  /\ last.args[3] # NULL
  /\ last.real_call # NULL
  /\ last.rc = EAI_NONAME
  /\ env # NULL /\ env[1] # << >>

----------------------------------------------------------------------------
(* The parser on well-formed configuration strings *)

\* the largest number of entries of a configuration string
MaxEntries == 2

\* A well-formed entry: a host, an address, whether the address is written
\* in brackets, and whether the entry is written with white space around the
\* host and the address.
EntryHosts == {S_db, S_Db, <<"D", "B">>, S_x}

EntryAddresses ==
  {[addr |-> S_1234, bracket |-> FALSE],
   [addr |-> S_v6, bracket |-> FALSE],
   [addr |-> S_v6long, bracket |-> TRUE]}

WellFormedEntries ==
  {[host |-> h, addr |-> a.addr, bracket |-> a.bracket, pad |-> p] :
     h \in EntryHosts, a \in EntryAddresses, p \in BOOLEAN}

EntryLists == UNION {[1..n -> WellFormedEntries] : n \in 1..MaxEntries}

\* the text of an entry: host:address, " host :\taddress " when padded
EntryText(e) ==
  LET a == IF e.bracket THEN <<"[">> \o e.addr \o <<"]">> ELSE e.addr
  IN  IF e.pad THEN <<" ">> \o e.host \o <<" ", ":", "\t">> \o a \o <<" ">>
      ELSE e.host \o <<":">> \o a

RECURSIVE ConfigText(_)
\* the entries' texts in order, separated by commas
ConfigText(es) ==
  IF Len(es) = 1 THEN EntryText(es[1])
  ELSE ConfigText(SubSeq(es, 1, Len(es) - 1)) \o <<",">> \o EntryText(es[Len(es)])

\* the names looked up: every case variant of db and of x
ParseNames ==
  {Ptr(<<a, b>>) : a \in {"d", "D"}, b \in {"b", "B"}} \cup {Ptr(<<"x">>), Ptr(<<"X">>)}

\* one call of lookup_ip_for by a thread that is alone
LookupAlone ==
  \E name \in ParseNames :
    LET lk == lookup_ip_for(name, TableAfterEnsure(name))
    IN  /\ EnsureAlone(name)
        /\ g_map' = lk.map
        /\ last' = [NoCall EXCEPT !.api = "lookup_ip_for", !.t = 1,
                                  !.args = <<name>>, !.hit = lk.found,
                                  !.ip = lk.ip]
        /\ UNCHANGED <<env, libc, parse_i, pc, cur, tls, held, req, entries>>
        /\ UNCHANGED launcherVars

InitParse ==
  /\ entries \in EntryLists
  /\ env = Ptr(ConfigText(entries))
  /\ libc = Apis
  /\ req = NULL
  /\ ShimStart
  /\ LauncherOff

NextParse == LookupAlone

SpecParse == InitParse /\ [][NextParse]_vars

\* two letters that are equal when lower-cased
SameLetter(c, d) ==
  c = d \/ \E k \in 1..Len(UpperCase) : {c, d} = {UpperCase[k], LowerCase[k]}

\* two names that are case variants of each other
SameName(a, b) ==
  Len(a) = Len(b) /\ \A k \in 1..Len(a) : SameLetter(a[k], b[k])

\* the positions of the entries whose host is a case variant of the name
EntriesFor(name) == {k \in 1..Len(entries) : SameName(entries[k].host, name)}

\* C6: for a configuration string of well-formed entries, a lookup of any
\* case variant of a listed host hits and yields the address of the last
\* entry whose host is a case variant of the name.
C6_LastEntryWins ==
  (last.api = "lookup_ip_for" /\ EntriesFor(last.args[1][1]) # {}) =>
    LET name == last.args[1][1]
        k == CHOOSE x \in EntriesFor(name) : \A y \in EntriesFor(name) : y <= x
    IN  /\ last.hit
        /\ last.ip = entries[k].addr

\* A name was looked up whose host is listed twice, in different case and
\* with different addresses, and in a case that neither entry is written in.
C6_Witness ==
  /\ last.api = "lookup_ip_for"
  /\ Cardinality(EntriesFor(last.args[1][1])) = 2
  /\ entries[1].host # entries[2].host
  /\ entries[1].addr # entries[2].addr
  /\ \A k \in 1..Len(entries) : entries[k].host # last.args[1][1]
  /\ last.hit
  /\ last.ip = entries[2].addr

----------------------------------------------------------------------------
(* The launcher: main of overridehosts.cpp *)

\* the largest number of arguments after argv[0]
MaxArgs == 3

looks_like_mapping_dash(s) == s # << >> /\ find(s, ":", 0) # npos

looks_like_mapping(s) == s # << >> /\ s[1] # "-" /\ find(s, ":", 0) # npos

RECURSIVE scan_env(_, _, _)
\* parse_env_overridehosts's loop over s with the token cur and the list out,
\* and its final flush
scan_env(s, tok, out) ==
  LET flushed == IF tok # << >> /\ looks_like_mapping(tok) THEN Append(out, tok)
                 ELSE out
  IN  IF s = << >> THEN flushed
      ELSE IF s[1] \in {",", " ", "\t", "\n", "\r"}
      THEN scan_env(Tail(s), << >>, flushed)
      ELSE scan_env(Tail(s), Append(tok, s[1]), out)

\* parse_env_overridehosts: the mappings of the value e of OVERRIDEHOSTS
parse_env_overridehosts(e) ==
  IF e = NULL \/ e[1] = << >> THEN << >> ELSE scan_env(e[1], << >>, << >>)

RECURSIVE join_csv(_)
join_csv(v) ==
  IF v = << >> THEN << >>
  ELSE IF Len(v) = 1 THEN v[1]
  ELSE join_csv(SubSeq(v, 1, Len(v) - 1)) \o <<",">> \o v[Len(v)]

RECURSIVE find_last_of(_, _, _)
\* std::string::find_last_of(ch), searched from index from downwards
find_last_of(s, ch, from) ==
  IF from < 0 THEN npos
  ELSE IF s[from + 1] = ch THEN from
  ELSE find_last_of(s, ch, from - 1)

\* get_exe_dir on the path readlink gave
get_exe_dir(full) ==
  LET pos == find_last_of(full, "/", Len(full) - 1)
  IN  IF pos = npos THEN <<".">> ELSE substr(full, 0, pos)

MuslSo == <<"/", "l", "i", "b", "o", "v", "e", "r", "r", "i", "d", "e", "h", "o", "s", "t", "s", "-", "m", "u", "s", "l", ".", "s", "o">>

GlibcSo == <<"/", "l", "i", "b", "o", "v", "e", "r", "r", "i", "d", "e", "h", "o", "s", "t", "s", "-", "g", "l", "i", "b", "c", ".", "s", "o">>

\* select_preload_so: OVERRIDEHOSTS_SO when set and not empty, else the
\* build for the C library found, beside the executable
select_preload_so(exe_dir, so_env, is_musl) ==
  IF so_env # NULL /\ so_env[1] # << >> THEN so_env[1]
  ELSE exe_dir \o (IF is_musl THEN MuslSo ELSE GlibcSo)

\* the value main gives LD_PRELOAD
preload_value(so_path, old) ==
  IF old # NULL /\ old[1] # << >> THEN so_path \o <<" ">> \o old[1] ELSE so_path

A_sep == <<"-", "-">>

A_map == <<"d", ":", "1">>

A_dash == <<"-", "d", ":", "1">>

A_cmd == <<"l", "s">>

ArgTokens == {A_sep, A_map, A_dash, A_cmd}

\* argv: the launcher's name and up to MaxArgs arguments
Argvs == UNION {{<<<<"o", "h">>>> \o a : a \in [1..n -> ArgTokens]} : n \in 0..MaxArgs}

\* the environments the launcher is started in
LauncherEnvs ==
  [OVERRIDEHOSTS : {NULL, Ptr(<<"x", ":", "2", " ", "b", "a", "d", ",", "y", ":", "3">>), Ptr(<<"j", "u", "n", "k">>)},
   LD_PRELOAD : {NULL, Ptr(<< >>), Ptr(<<"o", ".", "s", "o">>)},
   OVERRIDEHOSTS_SO : {NULL, Ptr(<<"/", "s", ".", "s", "o">>)}]

\* what readlink("/proc/self/exe") gives: nothing, or the launcher's path
ExePaths == {NULL, Ptr(<<"/", "b", "/", "o", "h">>)}

\* the steps of main, in the order it takes them
Milestones ==
  <<"args_accepted", "separator_and_command", "mappings_exist", "shim_readable",
    "config_set", "preload_set">>

argc == Len(l_argv)

\* argv[k], counted from 0 as in the code
argv(k) == l_argv[k + 1]

Fixed ==
  /\ UNCHANGED shimVars
  /\ UNCHANGED <<l_argv, l_env0>>

\* die(msg), and main's return 2: the launcher terminates with the code
Exit(code) ==
  /\ l_exit' = code
  /\ l_pc' = "exited"

\* main up to the loop: the mappings of the environment
LStart ==
  /\ l_pc = "start"
  /\ l_mappings' = parse_env_overridehosts(l_env.OVERRIDEHOSTS)
  /\ l_i' = 1
  /\ l_pc' = "args"
  /\ UNCHANGED <<l_env, l_sep, l_so, l_steps, l_exit, l_exec>>
  /\ Fixed

\* one iteration of the loop over the arguments
LArg ==
  /\ l_pc = "args"
  /\ l_i < argc
  /\ IF argv(l_i) = A_sep
     THEN /\ l_sep' = l_i
          /\ l_pc' = "usage"
          /\ l_steps' = Append(l_steps, "args_accepted")
          /\ UNCHANGED <<l_i, l_mappings, l_exit>>
     ELSE IF ~looks_like_mapping(argv(l_i))
     THEN /\ Exit(1)
          /\ UNCHANGED <<l_i, l_sep, l_mappings, l_steps>>
     ELSE /\ l_mappings' = Append(l_mappings, argv(l_i))
          /\ l_i' = l_i + 1
          /\ UNCHANGED <<l_sep, l_pc, l_steps, l_exit>>
  /\ UNCHANGED <<l_env, l_so, l_exec>>
  /\ Fixed

\* the loop ends without a separator
LArgsEnd ==
  /\ l_pc = "args"
  /\ l_i >= argc
  /\ l_pc' = "usage"
  /\ l_steps' = Append(l_steps, "args_accepted")
  /\ UNCHANGED <<l_env, l_i, l_sep, l_mappings, l_so, l_exit, l_exec>>
  /\ Fixed

\* no separator, or no command after it: usage, return 2
LUsage ==
  /\ l_pc = "usage"
  /\ IF l_sep = -1 \/ l_sep + 1 >= argc
     THEN Exit(2) /\ UNCHANGED l_steps
     ELSE /\ l_pc' = "mappings"
          /\ l_steps' = Append(l_steps, "separator_and_command")
          /\ UNCHANGED l_exit
  /\ UNCHANGED <<l_env, l_i, l_sep, l_mappings, l_so, l_exec>>
  /\ Fixed

LMappings ==
  /\ l_pc = "mappings"
  /\ IF l_mappings = << >>
     THEN Exit(1) /\ UNCHANGED l_steps
     ELSE /\ l_pc' = "select"
          /\ l_steps' = Append(l_steps, "mappings_exist")
          /\ UNCHANGED l_exit
  /\ UNCHANGED <<l_env, l_i, l_sep, l_mappings, l_so, l_exec>>
  /\ Fixed

\* get_exe_dir and select_preload_so
LSelect ==
  /\ l_pc = "select"
  /\ \E exe \in ExePaths, is_musl \in BOOLEAN :
       IF exe = NULL
       THEN Exit(1) /\ UNCHANGED l_so
       ELSE /\ l_so' = select_preload_so(get_exe_dir(exe[1]),
                                         l_env.OVERRIDEHOSTS_SO, is_musl)
            /\ l_pc' = "exists"
            /\ UNCHANGED l_exit
  /\ UNCHANGED <<l_env, l_i, l_sep, l_mappings, l_steps, l_exec>>
  /\ Fixed

\* exists(so_path): access(so_path, R_OK)
LExists ==
  /\ l_pc = "exists"
  /\ \E readable \in BOOLEAN :
       IF ~readable
       THEN Exit(1) /\ UNCHANGED l_steps
       ELSE /\ l_pc' = "setenv_hosts"
            /\ l_steps' = Append(l_steps, "shim_readable")
            /\ UNCHANGED l_exit
  /\ UNCHANGED <<l_env, l_i, l_sep, l_mappings, l_so, l_exec>>
  /\ Fixed

\* setenv_or_die("OVERRIDEHOSTS", join_csv(mappings))
LSetenvHosts ==
  /\ l_pc = "setenv_hosts"
  /\ \E ok \in BOOLEAN :
       IF ~ok
       THEN Exit(1) /\ UNCHANGED <<l_env, l_steps>>
       ELSE /\ l_env' = [l_env EXCEPT !.OVERRIDEHOSTS = Ptr(join_csv(l_mappings))]
            /\ l_pc' = "setenv_preload"
            /\ l_steps' = Append(l_steps, "config_set")
            /\ UNCHANGED l_exit
  /\ UNCHANGED <<l_i, l_sep, l_mappings, l_so, l_exec>>
  /\ Fixed

\* setenv_or_die("LD_PRELOAD", so_path [+ " " + old])
LSetenvPreload ==
  /\ l_pc = "setenv_preload"
  /\ \E ok \in BOOLEAN :
       IF ~ok
       THEN Exit(1) /\ UNCHANGED <<l_env, l_steps>>
       ELSE /\ l_env' = [l_env EXCEPT
                           !.LD_PRELOAD = Ptr(preload_value(l_so, l_env.LD_PRELOAD))]
            /\ l_pc' = "exec"
            /\ l_steps' = Append(l_steps, "preload_set")
            /\ UNCHANGED l_exit
  /\ UNCHANGED <<l_i, l_sep, l_mappings, l_so, l_exec>>
  /\ Fixed

\* execvp(argv[sep + 1], &argv[sep + 1]), and die when it returns
LExec ==
  /\ l_pc = "exec"
  /\ \E ok \in BOOLEAN :
       IF ok
       THEN /\ l_exec' = Ptr(SubSeq(l_argv, l_sep + 2, Len(l_argv)))
            /\ l_pc' = "replaced"
            /\ UNCHANGED l_exit
       ELSE Exit(1) /\ UNCHANGED l_exec
  /\ UNCHANGED <<l_env, l_i, l_sep, l_mappings, l_so, l_steps>>
  /\ Fixed

InitLauncher ==
  /\ l_argv \in Argvs
  /\ l_env0 \in LauncherEnvs
  /\ l_env = l_env0
  /\ l_pc = "start"
  /\ l_i = 0
  /\ l_sep = -1
  /\ l_mappings = << >>
  /\ l_so = << >>
  /\ l_steps = << >>
  /\ l_exit = -1
  /\ l_exec = NULL
  /\ env = NULL
  /\ libc = Apis
  /\ req = NULL
  /\ entries = << >>
  /\ ShimStart

NextLauncher ==
  \/ LStart
  \/ LArg
  \/ LArgsEnd
  \/ LUsage
  \/ LMappings
  \/ LSelect
  \/ LExists
  \/ LSetenvHosts
  \/ LSetenvPreload
  \/ LExec

SpecLauncher == InitLauncher /\ [][NextLauncher]_vars

\* the position in argv of the first "--", 0 when there is none
FirstSeparator ==
  IF \E k \in 1..(argc - 1) : argv(k) = A_sep
  THEN CHOOSE k \in 1..(argc - 1) :
         argv(k) = A_sep /\ \A j \in 1..(k - 1) : argv(j) # A_sep
  ELSE 0

\* a host:addr mapping as the command line defines it: not empty, no leading
\* dash, a colon
MappingShaped(s) == s # << >> /\ s[1] # "-" /\ \E k \in 1..Len(s) : s[k] = ":"

\* C9: the command runs only after the steps of main in their order: every
\* argument before the separator is a mapping, the separator has a command
\* after it, there is a mapping, the shim file was readable, OVERRIDEHOSTS is
\* the merged mappings and LD_PRELOAD starts with the shim path (followed by
\* its old value); a launcher that terminates without running the command
\* exits with 1 or 2; at every point the steps done are an initial part of
\* that order.
C9_ExecOnlyAfterSetup ==
  /\ \E n \in 0..Len(Milestones) : l_steps = SubSeq(Milestones, 1, n)
  /\ (l_pc = "exited" => l_exit \in {1, 2} /\ l_exec = NULL)
  /\ (l_pc # "exited" => l_exit = -1)
  /\ (l_pc # "replaced" => l_exec = NULL)
  /\ (l_pc = "replaced" =>
        /\ l_steps = Milestones
        /\ FirstSeparator > 0
        /\ \A k \in 1..(FirstSeparator - 1) : MappingShaped(argv(k))
        /\ FirstSeparator + 1 < argc
        /\ l_exec = Ptr(SubSeq(l_argv, FirstSeparator + 2, argc))
        /\ l_mappings # << >>
        /\ l_mappings = parse_env_overridehosts(l_env0.OVERRIDEHOSTS)
                          \o SubSeq(l_argv, 2, FirstSeparator)
        /\ l_env.OVERRIDEHOSTS = Ptr(join_csv(l_mappings))
        /\ l_env.LD_PRELOAD = Ptr(preload_value(l_so, l_env0.LD_PRELOAD))
        /\ SubSeq(l_env.LD_PRELOAD[1], 1, Len(l_so)) = l_so)

\* The command ran with mappings from the environment and the command line
\* and with an old LD_PRELOAD kept behind the shim's default path.
C9_Witness ==
  /\ l_pc = "replaced"
  /\ parse_env_overridehosts(l_env0.OVERRIDEHOSTS) # << >>
  /\ FirstSeparator = 2
  /\ l_env0.LD_PRELOAD # NULL /\ l_env0.LD_PRELOAD[1] # << >>
  /\ l_env0.OVERRIDEHOSTS_SO = NULL
  /\ Len(l_mappings) = 3

====
